---- MODULE Spec2Model ----
(***************************************************************************)
(* A model of the harvester_vm Ansible module                              *)
(* (ansible/roles/harvesterpy/library/harvester_vm.py): the VM spec        *)
(* builder build_vm_spec and the reconciler main, run against a control    *)
(* plane that holds at most one VM of the requested name.                  *)
(*                                                                         *)
(* Python values: a dict is a function over its string keys, None is the   *)
(* record None, a list parameter is List(<<...>>), an f-string is the      *)
(* tuple of its pieces.                                                    *)
(***************************************************************************)
EXTENDS Integers, Sequences, FiniteSets, TLC

VARIABLES
    plane,        \* the control plane: [exists, doc, rv]
    req,          \* the request of the current invocation: module.params + check_mode
    pc,           \* position of the current invocation in main
    vm_exists,    \* main's local vm_exists
    existing_vm,  \* main's local existing_vm
    result,       \* main's local result
    calls,        \* client calls issued by the current invocation, in order
    raised,       \* exceptions raised by client calls in the current invocation
    outcomes,     \* outcomes emitted by the current invocation (exit_json / fail_json)
    startPlane,   \* the control plane as it was when the invocation began
    prev,         \* summary of the invocation that ran just before this one
    repeat,       \* the current request is identical to the previous one
    parked,       \* the locals of a second invocation that is not running now
    build_in,     \* the module_params handed to build_vm_spec
    build_out     \* the document build_vm_spec returned for build_in

vars == <<plane, req, pc, vm_exists, existing_vm, result, calls, raised,
          outcomes, startPlane, prev, repeat, parked, build_in, build_out>>

\* what the steps of one invocation of main leave alone
aside == <<parked, build_in, build_out>>

(***************************************************************************)
(* Bounds                                                                  *)
(***************************************************************************)
\* the control plane accepts this many mutations in one behaviour
MaxVersion == 2

\* the longest disk list and the longest network list handed to build_vm_spec
MaxDisks == 2
MaxNetworks == 2

(***************************************************************************)
(* Python values                                                           *)
(***************************************************************************)
None == [t |-> "None"]
List(s) == [t |-> "list", v |-> s]
EmptyDict == [k \in {} |-> k]

\* d.get(key, default) on a dict
DictGet(d, key, default) == IF key \in DOMAIN d THEN d[key] ELSE default

\* truthiness of a dict-or-None parameter
TruthyDict(d) == d # None /\ DOMAIN d # {}

\* truthiness of a list-or-None parameter
TruthyList(l) == l.t # "None" /\ Len(l.v) > 0

(***************************************************************************)
(* build_vm_spec                                                           *)
(***************************************************************************)
DefaultDisks == <<[name |-> "disk0", bus |-> "virtio"]>>
DefaultNetworks == <<[name |-> "default", type |-> "pod"]>>

DiskDevice(disk) ==
    [name |-> DictGet(disk, "name", "disk0"),
     disk |-> [bus |-> DictGet(disk, "bus", "virtio")]]

DiskVolume(disk) ==
    [name |-> DictGet(disk, "name", "disk0"),
     persistentVolumeClaim |-> [claimName |-> disk["volume_name"]]]

RECURSIVE DiskDevices(_)
DiskDevices(disks) ==
    IF disks = <<>> THEN <<>>
    ELSE <<DiskDevice(Head(disks))>> \o DiskDevices(Tail(disks))

\* mutant: every disk gets a volume entry
RECURSIVE Volumes_EveryDisk(_)
Volumes_EveryDisk(disks) ==
    IF disks = <<>> THEN <<>>
    ELSE <<[name |-> DictGet(Head(disks), "name", "disk0"),
            persistentVolumeClaim |->
                [claimName |-> DictGet(Head(disks), "volume_name",
                                       DictGet(Head(disks), "name", "disk0"))]]>>
         \o Volumes_EveryDisk(Tail(disks))

RECURSIVE Volumes(_)
Volumes(disks) ==
    IF disks = <<>> THEN <<>>
    ELSE (IF "volume_name" \in DOMAIN Head(disks)
          THEN <<DiskVolume(Head(disks))>> ELSE <<>>) \o Volumes(Tail(disks))

\* mutant: a network of any other type gets a bridge interface
NetInterface_OtherAsBridge(network) ==
    LET net_name == DictGet(network, "name", "default")
        net_type == DictGet(network, "type", "pod")
    IN  IF net_type = "pod"
        THEN <<[name |-> net_name, masquerade |-> EmptyDict]>>
        ELSE <<[name |-> net_name, bridge |-> EmptyDict]>>

NetInterface(network) ==
    LET net_name == DictGet(network, "name", "default")
        net_type == DictGet(network, "type", "pod")
    IN  IF net_type = "pod"
        THEN <<[name |-> net_name, masquerade |-> EmptyDict]>>
        ELSE IF net_type = "multus"
        THEN <<[name |-> net_name, bridge |-> EmptyDict]>>
        ELSE <<>>

NetEntry(network) ==
    LET net_name == DictGet(network, "name", "default")
        net_type == DictGet(network, "type", "pod")
    IN  IF net_type = "pod"
        THEN <<[name |-> net_name, pod |-> EmptyDict]>>
        ELSE IF net_type = "multus"
        THEN <<[name |-> net_name,
                multus |-> [networkName |->
                               DictGet(network, "network_name", net_name)]]>>
        ELSE <<>>

RECURSIVE Interfaces(_)
Interfaces(networks) ==
    IF networks = <<>> THEN <<>>
    ELSE NetInterface(Head(networks)) \o Interfaces(Tail(networks))

RECURSIVE NetworkList(_)
NetworkList(networks) ==
    IF networks = <<>> THEN <<>>
    ELSE NetEntry(Head(networks)) \o NetworkList(Tail(networks))

\* mutant: the running parameter is written into the raw spec
RawVmSpec_WithRunning(module_params) ==
    LET metadata == [name |-> module_params.name,
                     namespace |-> module_params.namespace]
        raw == module_params.spec
    IN  [apiVersion |-> "kubevirt.io/v1",
         kind |-> "VirtualMachine",
         metadata |-> IF TruthyDict(module_params.labels)
                      THEN metadata @@ [labels |-> module_params.labels]
                      ELSE metadata,
         spec |-> [k \in DOMAIN raw \cup {"running"} |->
                      IF k = "running" THEN module_params.running ELSE raw[k]]]

RawVmSpec(module_params) ==
    LET metadata == [name |-> module_params.name,
                     namespace |-> module_params.namespace]
    IN  [apiVersion |-> "kubevirt.io/v1",
         kind |-> "VirtualMachine",
         metadata |-> IF TruthyDict(module_params.labels)
                      THEN metadata @@ [labels |-> module_params.labels]
                      ELSE metadata,
         spec |-> module_params.spec]

\* mutant: only a missing disk list gets the default, an empty one does not
Disks_OnlyWhenMissing(module_params) ==
    IF module_params.disks.t # "None"
    THEN module_params.disks.v ELSE DefaultDisks

\* the local disks: the caller's list, or the default when there is none
Disks(module_params) ==
    IF TruthyList(module_params.disks)
    THEN module_params.disks.v ELSE DefaultDisks

\* mutant: the default also replaces a list that yields no entry
Networks_WhenNothingEmitted(module_params) ==
    IF TruthyList(module_params.networks)
       /\ NetworkList(module_params.networks.v) # <<>>
    THEN module_params.networks.v ELSE DefaultNetworks

\* the local networks: the caller's list, or the default when there is none
Networks(module_params) ==
    IF TruthyList(module_params.networks)
    THEN module_params.networks.v ELSE DefaultNetworks

StructuredVmSpec(module_params) ==
    LET disks == Disks(module_params)
        networks == Networks(module_params)
    IN  [apiVersion |-> "kubevirt.io/v1",
         kind |-> "VirtualMachine",
         metadata |-> [name |-> module_params.name,
                       namespace |-> module_params.namespace],
         spec |-> [
            running |-> module_params.running,
            template |-> [
                metadata |-> [labels |-> module_params.labels],
                spec |-> [
                    domain |-> [
                        cpu |-> [cores |-> module_params.cpu_cores],
                        memory |-> [guest |-> module_params.memory],
                        devices |-> [disks |-> DiskDevices(disks),
                                     interfaces |-> Interfaces(networks)]],
                    networks |-> NetworkList(networks),
                    volumes |-> Volumes(disks)]]]]

build_vm_spec(module_params) ==
    IF TruthyDict(module_params.spec)
    THEN RawVmSpec(module_params)
    ELSE StructuredVmSpec(module_params)

(***************************************************************************)
(* Requests: module.params (argument_spec) and the check-mode flag         *)
(***************************************************************************)
Str(s) == [t |-> "str", v |-> s]

VmName == "my-vm"
Namespace == "default"

States == {"present", "absent", "started", "stopped", "restarted"}

\* token, username, password: each given or not
Auths == [token : {None, Str("tok")},
          username : {None, Str("admin")},
          password : {None, Str("secret")}]

TokenAuth == [token |-> Str("tok"), username |-> None, password |-> None]

\* the structured and raw fields of a request
CfgDefault ==
    [running |-> TRUE, cpu_cores |-> 2, memory |-> "4Gi",
     disks |-> None, networks |-> None, labels |-> None, spec |-> None]

CfgCustom ==
    [running |-> FALSE, cpu_cores |-> 4, memory |-> "8Gi",
     disks |-> List(<<[name |-> "disk0", volume_name |-> "my-volume",
                       bus |-> "virtio"],
                      [name |-> "scratch"]>>),
     networks |-> List(<<[name |-> "default", type |-> "pod"],
                         [name |-> "vlan1", type |-> "multus"]>>),
     labels |-> [app |-> "web"], spec |-> None]

CfgRaw ==
    [running |-> TRUE, cpu_cores |-> 2, memory |-> "4Gi",
     disks |-> None, networks |-> None, labels |-> [app |-> "web"],
     spec |-> [template |-> [spec |-> [domain |-> [cpu |-> [cores |-> 4]]]]]]

Configs == {CfgDefault, CfgCustom, CfgRaw}

Params(auth, state, cfg) ==
    auth @@ [name |-> VmName, namespace |-> Namespace, state |-> state] @@ cfg

Requests ==
    {[check_mode |-> c, params |-> Params(a, s, k)] :
        c \in BOOLEAN, a \in Auths, s \in States, k \in Configs}

\* the requests of the runs that are compared with the run before them
SeqRequests ==
    {[check_mode |-> c, params |-> Params(TokenAuth, s, k)] :
        c \in BOOLEAN, s \in States, k \in {CfgDefault}}

\* the disk and network dicts a caller may put in the lists
DiskItems ==
    {[name |-> "disk0", volume_name |-> "my-volume", bus |-> "virtio"],
     [name |-> "scratch"],
     [volume_name |-> "data", bus |-> "sata"]}

NetworkItems ==
    {[name |-> "default", type |-> "pod"],
     [name |-> "vlan1", type |-> "multus", network_name |-> "default/vlan1"],
     [name |-> "vlan2", type |-> "multus"],
     [name |-> "mgmt", type |-> "other"],
     [name |-> "plain"]}

\* the lists over S of at most n items
SeqsUpTo(S, n) == UNION {[1..k -> S] : k \in 0..n}

\* a list parameter: not supplied, or a list of at most n items
OptLists(S, n) == {None} \cup {List(l) : l \in SeqsUpTo(S, n)}

RawSpecs ==
    {[running |-> FALSE,
      template |-> [spec |-> [domain |-> [cpu |-> [cores |-> 4]]]]]}

\* the module_params build_vm_spec is called with
BuildInputs ==
    {[name |-> VmName, namespace |-> Namespace,
      running |-> r, cpu_cores |-> size[1], memory |-> size[2],
      disks |-> d, networks |-> n, labels |-> l, spec |-> sp] :
        r \in BOOLEAN, size \in {<<2, "4Gi">>, <<4, "8Gi">>},
        d \in OptLists(DiskItems, MaxDisks),
        n \in OptLists(NetworkItems, MaxNetworks),
        l \in {None, EmptyDict, [app |-> "web"]},
        sp \in {None, EmptyDict} \cup RawSpecs}

(***************************************************************************)
(* The control plane behind client.virtual_machines                        *)
(***************************************************************************)
Metadata(rv) ==
    [name |-> VmName, namespace |-> Namespace, resourceVersion |-> rv]

AbsentPlane(rv) == [exists |-> FALSE, doc |-> None, rv |-> rv]

ExistingPlane(doc, rv) == [exists |-> TRUE, doc |-> doc, rv |-> rv]

\* the VMs the control plane may hold when the first invocation begins
InitDocs ==
    {[metadata |-> Metadata(0), spec |-> [running |-> TRUE]],
     [metadata |-> Metadata(0), spec |-> [running |-> FALSE]],
     [metadata |-> Metadata(0), spec |-> EmptyDict],
     [metadata |-> Metadata(0)]}

InitPlanes == {AbsentPlane(0)} \cup {ExistingPlane(d, 0) : d \in InitDocs}

\* the document after spec.running is set to b
SetRunning(doc, b) ==
    [k \in DOMAIN doc \cup {"spec"} |->
        IF k = "spec"
        THEN [j \in DOMAIN DictGet(doc, "spec", EmptyDict) \cup {"running"} |->
                 IF j = "running" THEN b ELSE doc.spec[j]]
        ELSE doc[k]]

\* the document as stored at version rv
Stored(doc, rv) ==
    [doc EXCEPT !.metadata = [k \in DOMAIN @ \cup {"resourceVersion"} |->
                                 IF k = "resourceVersion" THEN rv ELSE @[k]]]

ErrKinds == {"HarvesterAuthenticationError", "HarvesterAPIError",
             "HarvesterException", "Exception"}

Ok(p, ret) == [ok |-> TRUE, plane |-> p, ret |-> ret, err |-> "none"]
Err(p, e) == [ok |-> FALSE, plane |-> p, ret |-> None, err |-> e]

\* what a call that the control plane accepts does to it, and what it returns
Applied(op, p, arg) ==
    LET rv == p.rv + 1
        doc == IF op = "create" THEN Stored(arg, rv)
               ELSE IF op = "start" THEN Stored(SetRunning(p.doc, TRUE), rv)
               ELSE IF op = "stop" THEN Stored(SetRunning(p.doc, FALSE), rv)
               ELSE Stored(p.doc, rv)
    IN  IF op = "delete" THEN Ok(AbsentPlane(rv), None)
        ELSE Ok(ExistingPlane(doc, rv), doc)

\* the possible results of one client call: the call is applied, or it raises
\* and leaves the control plane as it was
ClientCall(op, p, arg) ==
    (IF op = "get"
     THEN {IF p.exists THEN Ok(p, p.doc) ELSE Err(p, "HarvesterNotFoundError")}
     ELSE IF op = "create" /\ p.exists THEN {Err(p, "HarvesterAPIError")}
     ELSE IF op # "create" /\ ~p.exists THEN {Err(p, "HarvesterNotFoundError")}
     ELSE IF p.rv < MaxVersion THEN {Applied(op, p, arg)}
     ELSE {})
    \cup {Err(p, e) : e \in ErrKinds}

(***************************************************************************)
(* main                                                                    *)
(***************************************************************************)
NoResult == [changed |-> FALSE, vm |-> EmptyDict, message |-> ""]

\* f"VM '{name}' ..."
Message(name, what) == <<"VM '", name, "' ", what>>

\* AnsibleModule(...): required_together, then required_one_of
ArgErrors(params) ==
    IF (params.username = None) # (params.password = None)
    THEN {"parameters are required together: username, password"}
    ELSE IF params.token = None /\ params.username = None
    THEN {"one of the following is required: token, username"}
    ELSE {}

\* isinstance(e, cls) for the classes of harvesterpy.exceptions
IsInstance(e, cls) ==
    \/ cls = "Exception"
    \/ cls = e
    \/ cls = "HarvesterException" /\ e \in {"HarvesterAuthenticationError",
                                            "HarvesterAPIError",
                                            "HarvesterNotFoundError"}

\* mutant: the clause for the base class comes first
ExceptLabels_BaseFirst(e) ==
    IF IsInstance(e, "HarvesterException") THEN {"Harvester error: "}
    ELSE {"Unexpected error: "}

\* the except clauses of main, in order: the labels the failure message can carry
ExceptLabels(e) ==
    IF e = "HarvesterNotFoundError"
    THEN {"API error: ", "Harvester error: "}
    ELSE IF IsInstance(e, "HarvesterAuthenticationError")
    THEN {"Authentication failed: "}
    ELSE IF IsInstance(e, "HarvesterAPIError") THEN {"API error: "}
    ELSE IF IsInstance(e, "HarvesterException") THEN {"Harvester error: "}
    ELSE {"Unexpected error: "}

\* mutant: a VM without a running field counts as running
vm_running_DefaultTrue(vm) ==
    DictGet(DictGet(vm, "spec", EmptyDict), "running", TRUE)

\* vm_running = existing_vm.get('spec', {}).get('running', False)
vm_running(vm) == DictGet(DictGet(vm, "spec", EmptyDict), "running", FALSE)

\* mutant: check mode is not consulted
MayCall_Always(check_mode) == TRUE

\* if not module.check_mode
MayCall(check_mode) == ~check_mode

\* mutant: start is issued whatever the observed running flag
NeedsStart_Always(vm) == TRUE

\* state == 'started': if not vm_running
NeedsStart(vm) == ~vm_running(vm)

\* mutant: the test of the running flag is inverted
NeedsStop_Inverted(vm) == ~vm_running(vm)

\* state == 'stopped': if vm_running
NeedsStop(vm) == vm_running(vm)

\* module.fail_json(msg=...) reports the failure and exits the process
fail_json(msg) ==
    /\ outcomes' = Append(outcomes, [kind |-> "fail_json", msg |-> msg])
    /\ pc' = "done"

\* a client call raised e: the matching except clause of main fails the module
Raise(call, e) ==
    /\ raised' = Append(raised, [call |-> call, error |-> e])
    /\ \E label \in ExceptLabels(e) : fail_json(<<label, e>>)

\* mutant: a mutating call that raises is issued a second time
Mutate_Retry(op, arg, assign, what) ==
    \E out \in ClientCall(op, plane, arg) :
        /\ plane' = out.plane
        /\ IF out.ok
           THEN /\ calls' = Append(calls, op)
                /\ result' = [changed |-> TRUE,
                              vm |-> IF assign THEN out.ret ELSE result.vm,
                              message |-> Message(req.params.name, what)]
                /\ pc' = "exit"
                /\ UNCHANGED <<raised, outcomes>>
           ELSE /\ calls' = Append(Append(calls, op), op)
                /\ Raise(op, out.err)
                /\ UNCHANGED result

\* one mutating client call and the statements after it up to module.exit_json;
\* assign: the call's return value is assigned to result['vm']
Mutate(op, arg, assign, what) ==
    \E out \in ClientCall(op, plane, arg) :
        /\ calls' = Append(calls, op)
        /\ plane' = out.plane
        /\ IF out.ok
           THEN /\ result' = [changed |-> TRUE,
                              vm |-> IF assign THEN out.ret ELSE result.vm,
                              message |-> Message(req.params.name, what)]
                /\ pc' = "exit"
                /\ UNCHANGED <<raised, outcomes>>
           ELSE /\ Raise(op, out.err)
                /\ UNCHANGED result

\* mutant: the predicted change is not reported
Predict_Unchanged(what) ==
    /\ result' = [result EXCEPT !.message = Message(req.params.name, what)]
    /\ pc' = "exit"
    /\ UNCHANGED <<plane, calls, raised, outcomes>>

\* mutant: the prediction carries the observed VM
Predict_Observed(what) ==
    /\ result' = [result EXCEPT !.changed = TRUE,
                                !.vm = existing_vm,
                                !.message = Message(req.params.name, what)]
    /\ pc' = "exit"
    /\ UNCHANGED <<plane, calls, raised, outcomes>>

\* the branch predicts a change without calling the client (check mode)
Predict(what) ==
    /\ result' = [result EXCEPT !.changed = TRUE,
                                !.message = Message(req.params.name, what)]
    /\ pc' = "exit"
    /\ UNCHANGED <<plane, calls, raised, outcomes>>

\* the branch changes nothing and leaves result['vm'] as it is
Nothing(what) ==
    /\ result' = [result EXCEPT !.message = Message(req.params.name, what)]
    /\ pc' = "exit"
    /\ UNCHANGED <<plane, calls, raised, outcomes>>

\* the branch changes nothing and reports the observed VM
Observed(what) ==
    /\ result' = [result EXCEPT !.vm = existing_vm,
                                !.message = Message(req.params.name, what)]
    /\ pc' = "exit"
    /\ UNCHANGED <<plane, calls, raised, outcomes>>

\* mutant: the missing VM is reported as a success
NotFound_Ignored ==
    /\ result' = [result EXCEPT !.message =
                                   Message(req.params.name, "does not exist")]
    /\ pc' = "exit"
    /\ UNCHANGED <<plane, calls, raised, outcomes>>

\* mutant: fail_json returns, the branch goes on to read the missing VM and
\* the generic handler fails the module a second time
NotFound_Continues ==
    /\ outcomes' = outcomes \o
          <<[kind |-> "fail_json",
             msg |-> Message(req.params.name, "does not exist")],
            [kind |-> "fail_json",
             msg |-> <<"Unexpected error: ", "AttributeError">>]>>
    /\ pc' = "done"
    /\ UNCHANGED <<plane, calls, raised, result>>

\* module.fail_json(msg=f"VM '{name}' does not exist") in a lifecycle branch
NotFound ==
    /\ fail_json(Message(req.params.name, "does not exist"))
    /\ UNCHANGED <<plane, calls, raised, result>>

\* the lookup of the current invocation has returned (found or not found)
Looked == pc \in {"branch", "exit"} \/ (pc = "done" /\ calls # <<>>
                                         /\ (raised = <<>> \/ raised[1].call # "get"))

\* the observed condition of the VM
Condition ==
    IF ~Looked THEN "unknown"
    ELSE IF ~vm_exists THEN "absent"
    ELSE IF vm_running(existing_vm) THEN "running" ELSE "not running"

Mutating == {"create", "delete", "start", "stop", "restart"}

MutatingCalls == SelectSeq(calls, LAMBDA c : c \in Mutating)

\* no second invocation
Nobody == [pc |-> "nobody"]

\* no request: the module is not running
NoRequest == [check_mode |-> FALSE, params |-> None]

NoPrev ==
    [req |-> NoRequest, condition |-> "unknown",
     kind |-> "none", changed |-> FALSE, message |-> <<>>,
     mutations |-> 0, clean |-> FALSE]

\* what is remembered of an invocation that has ended
Summary ==
    [req |-> req,
     condition |-> Condition,
     kind |-> outcomes[1].kind,
     changed |-> IF outcomes[1].kind = "exit_json"
                 THEN outcomes[1].changed ELSE FALSE,
     message |-> IF outcomes[1].kind = "exit_json"
                 THEN outcomes[1].message ELSE outcomes[1].msg,
     mutations |-> Len(MutatingCalls), clean |-> raised = <<>>]

\* the state of an invocation before its first statement
Fresh(r, p) ==
    /\ req = r
    /\ vm_exists = FALSE
    /\ existing_vm = None
    /\ result = NoResult
    /\ calls = <<>>
    /\ raised = <<>>
    /\ outcomes = <<>>
    /\ startPlane = p

\* the locals of main are as before its first statement
Reset(r) ==
    /\ req' = r
    /\ vm_exists' = FALSE
    /\ existing_vm' = None
    /\ result' = NoResult
    /\ calls' = <<>>
    /\ raised' = <<>>
    /\ outcomes' = <<>>
    /\ startPlane' = plane

\* the module is run with request r: argument parsing is about to begin
Invoke(r) ==
    /\ pc = "idle"
    /\ pc' = "args"
    /\ Reset(r)
    /\ repeat' = (prev.kind # "none" /\ r = prev.req)
    /\ UNCHANGED <<plane, prev>>
    /\ UNCHANGED aside

\* the process has exited: nothing of the invocation is kept
Forget ==
    /\ pc = "done"
    /\ pc' = "idle"
    /\ Reset(NoRequest)
    /\ UNCHANGED <<plane, prev, repeat>>
    /\ UNCHANGED aside

\* the process has exited: the caller remembers what the invocation reported
Remember ==
    /\ pc = "done"
    /\ pc' = "idle"
    /\ Reset(NoRequest)
    /\ prev' = Summary
    /\ UNCHANGED <<plane, repeat>>
    /\ UNCHANGED aside

\* module = AnsibleModule(argument_spec=..., required_one_of=..., ...)
ParseArgs ==
    /\ pc = "args"
    /\ IF ArgErrors(req.params) # {}
       THEN \E msg \in ArgErrors(req.params) : fail_json(msg)
       ELSE pc' = "import" /\ UNCHANGED outcomes
    /\ UNCHANGED <<plane, req, vm_exists, existing_vm, result, calls, raised,
                   startPlane, prev, repeat>>
    /\ UNCHANGED aside

\* if not HAS_HARVESTERPY: module.fail_json(...)
CheckImport ==
    /\ pc = "import"
    /\ \E HAS_HARVESTERPY \in BOOLEAN :
          IF ~HAS_HARVESTERPY
          THEN fail_json("harvesterpy Python library is required. Install with: pip install harvesterpy")
          ELSE pc' = "client" /\ UNCHANGED outcomes
    /\ UNCHANGED <<plane, req, vm_exists, existing_vm, result, calls, raised,
                   startPlane, prev, repeat>>
    /\ UNCHANGED aside

\* client = HarvesterClient(...): the constructor returns or raises
InitClient ==
    /\ pc = "client"
    /\ \E e \in {"none"} \cup ErrKinds :
          IF e = "none"
          THEN pc' = "lookup" /\ UNCHANGED <<raised, outcomes>>
          ELSE Raise("HarvesterClient", e)
    /\ UNCHANGED <<plane, req, vm_exists, existing_vm, result, calls,
                   startPlane, prev, repeat>>
    /\ UNCHANGED aside

\* existing_vm = client.virtual_machines.get(name, namespace=namespace)
Lookup ==
    /\ pc = "lookup"
    /\ \E out \in ClientCall("get", plane, None) :
          /\ calls' = Append(calls, "get")
          /\ IF out.ok
             THEN /\ existing_vm' = out.ret
                  /\ vm_exists' = TRUE
                  /\ pc' = "branch"
                  /\ UNCHANGED <<raised, outcomes>>
             ELSE IF out.err = "HarvesterNotFoundError"
             THEN /\ vm_exists' = FALSE
                  /\ pc' = "branch"
                  /\ UNCHANGED <<existing_vm, raised, outcomes>>
             ELSE /\ Raise("get", out.err)
                  /\ UNCHANGED <<existing_vm, vm_exists>>
    /\ UNCHANGED <<plane, req, result, startPlane, prev, repeat>>
    /\ UNCHANGED aside

\* if state == 'absent'
Absent ==
    /\ pc = "branch"
    /\ req.params.state = "absent"
    /\ IF vm_exists
       THEN IF MayCall(req.check_mode)
            THEN Mutate("delete", None, FALSE, "deleted")
            ELSE Predict("deleted")
       ELSE Nothing("does not exist")
    /\ UNCHANGED <<req, vm_exists, existing_vm, startPlane, prev, repeat>>
    /\ UNCHANGED aside

\* mutant: present corrects the power state of an existing VM
Present_PowerState ==
    /\ pc = "branch"
    /\ req.params.state = "present"
    /\ IF ~vm_exists
       THEN LET vm_spec == build_vm_spec(req.params)
            IN  IF MayCall(req.check_mode)
                THEN Mutate("create", vm_spec, TRUE, "created")
                ELSE Predict("created")
       ELSE IF req.params.running # vm_running(existing_vm)
       THEN IF MayCall(req.check_mode)
            THEN Mutate(IF req.params.running THEN "start" ELSE "stop",
                        None, TRUE, "updated")
            ELSE Predict("updated")
       ELSE Observed("already exists")
    /\ UNCHANGED <<req, vm_exists, existing_vm, startPlane, prev, repeat>>
    /\ UNCHANGED aside

\* mutant: create is withheld when the other invocation has issued one
Present_Locked ==
    /\ pc = "branch"
    /\ req.params.state = "present"
    /\ IF ~vm_exists
       THEN IF /\ parked # Nobody
               /\ \E i \in 1..Len(parked.calls) : parked.calls[i] = "create"
            THEN Nothing("already exists")
            ELSE LET vm_spec == build_vm_spec(req.params)
                 IN  IF MayCall(req.check_mode)
                     THEN Mutate("create", vm_spec, TRUE, "created")
                     ELSE Predict("created")
       ELSE Observed("already exists")
    /\ UNCHANGED <<req, vm_exists, existing_vm, startPlane, prev, repeat>>
    /\ UNCHANGED aside

\* elif state == 'present'
Present ==
    /\ pc = "branch"
    /\ req.params.state = "present"
    /\ IF ~vm_exists
       THEN LET vm_spec == build_vm_spec(req.params)
            IN  IF MayCall(req.check_mode)
                THEN Mutate("create", vm_spec, TRUE, "created")
                ELSE Predict("created")
       ELSE Observed("already exists")
    /\ UNCHANGED <<req, vm_exists, existing_vm, startPlane, prev, repeat>>
    /\ UNCHANGED aside

\* elif state == 'started'
Started ==
    /\ pc = "branch"
    /\ req.params.state = "started"
    /\ IF ~vm_exists
       THEN NotFound
       ELSE IF NeedsStart(existing_vm)
       THEN IF MayCall(req.check_mode)
            THEN Mutate("start", None, TRUE, "started")
            ELSE Predict("started")
       ELSE Observed("is already running")
    /\ UNCHANGED <<req, vm_exists, existing_vm, startPlane, prev, repeat>>
    /\ UNCHANGED aside

\* elif state == 'stopped'
Stopped ==
    /\ pc = "branch"
    /\ req.params.state = "stopped"
    /\ IF ~vm_exists
       THEN NotFound
       ELSE IF NeedsStop(existing_vm)
       THEN IF MayCall(req.check_mode)
            THEN Mutate("stop", None, TRUE, "stopped")
            ELSE Predict("stopped")
       ELSE Observed("is already stopped")
    /\ UNCHANGED <<req, vm_exists, existing_vm, startPlane, prev, repeat>>
    /\ UNCHANGED aside

\* mutant: restart is issued only for a VM observed running
Restarted_IfRunning ==
    /\ pc = "branch"
    /\ req.params.state = "restarted"
    /\ IF ~vm_exists
       THEN NotFound
       ELSE IF vm_running(existing_vm)
       THEN IF MayCall(req.check_mode)
            THEN Mutate("restart", None, TRUE, "restarted")
            ELSE Predict("restarted")
       ELSE Observed("is not running")
    /\ UNCHANGED <<req, vm_exists, existing_vm, startPlane, prev, repeat>>
    /\ UNCHANGED aside

\* elif state == 'restarted'
Restarted ==
    /\ pc = "branch"
    /\ req.params.state = "restarted"
    /\ IF ~vm_exists
       THEN NotFound
       ELSE IF MayCall(req.check_mode)
            THEN Mutate("restart", None, TRUE, "restarted")
            ELSE Predict("restarted")
    /\ UNCHANGED <<req, vm_exists, existing_vm, startPlane, prev, repeat>>
    /\ UNCHANGED aside

\* module.exit_json(**result) reports the result and exits the process
ExitJson ==
    /\ pc = "exit"
    /\ outcomes' = Append(outcomes, [kind |-> "exit_json", changed |-> result.changed,
                                     vm |-> result.vm, message |-> result.message])
    /\ pc' = "done"
    /\ UNCHANGED <<plane, req, vm_exists, existing_vm, result, calls, raised,
                   startPlane, prev, repeat>>
    /\ UNCHANGED aside

Step ==
    \/ ParseArgs \/ CheckImport \/ InitClient \/ Lookup
    \/ Absent \/ Present \/ Started \/ Stopped \/ Restarted
    \/ ExitJson

Start(r, p) ==
    /\ plane = p
    /\ pc = "args"
    /\ Fresh(r, p)
    /\ prev = NoPrev
    /\ repeat = FALSE
    /\ parked = Nobody
    /\ build_in = None
    /\ build_out = None

\* invocations one after another, each with any request
Init == \E r \in Requests, p \in InitPlanes : Start(r, p)

Next == (\E r \in Requests : Invoke(r)) \/ Forget \/ Step

Spec == Init /\ [][Next]_vars

\* invocations one after another, each compared with the one before it
InitSeq == \E r \in SeqRequests, p \in InitPlanes : Start(r, p)

NextSeq == (\E r \in SeqRequests : Invoke(r)) \/ Remember \/ Step

SpecSeq == InitSeq /\ [][NextSeq]_vars

\* the locals of the invocation that is executing
Locals ==
    [req |-> req, pc |-> pc, vm_exists |-> vm_exists,
     existing_vm |-> existing_vm, result |-> result, calls |-> calls,
     raised |-> raised, outcomes |-> outcomes, startPlane |-> startPlane]

\* the locals of an invocation with request r before its first statement
FreshLocals(r, p) ==
    [req |-> r, pc |-> "args", vm_exists |-> FALSE, existing_vm |-> None,
     result |-> NoResult, calls |-> <<>>, raised |-> <<>>, outcomes |-> <<>>,
     startPlane |-> p]

\* the scheduler runs the other process: nothing in main holds a lock on the
\* VM, so this can happen between any two statements
Switch ==
    /\ parked # Nobody
    /\ parked' = Locals
    /\ req' = parked.req
    /\ pc' = parked.pc
    /\ vm_exists' = parked.vm_exists
    /\ existing_vm' = parked.existing_vm
    /\ result' = parked.result
    /\ calls' = parked.calls
    /\ raised' = parked.raised
    /\ outcomes' = parked.outcomes
    /\ startPlane' = parked.startPlane
    /\ UNCHANGED <<plane, prev, repeat, build_in, build_out>>

\* two invocations for the same VM run as two processes against one control
\* plane
InitRace ==
    \E r1 \in SeqRequests, r2 \in SeqRequests, p \in InitPlanes :
        /\ plane = p
        /\ pc = "args"
        /\ Fresh(r1, p)
        /\ prev = NoPrev
        /\ repeat = FALSE
        /\ parked = FreshLocals(r2, p)
        /\ build_in = None
        /\ build_out = None

NextRace == Switch \/ Step

SpecRace == InitRace /\ [][NextRace]_vars

\* vm_spec = build_vm_spec(module.params)
Build ==
    /\ build_in # None
    /\ build_out = None
    /\ build_out' = build_vm_spec(build_in)
    /\ UNCHANGED <<plane, req, pc, vm_exists, existing_vm, result, calls,
                   raised, outcomes, startPlane, prev, repeat, parked,
                   build_in>>

\* build_vm_spec called once, with any module_params; main is not running
InitBuild ==
    /\ plane = AbsentPlane(0)
    /\ pc = "idle"
    /\ Fresh(NoRequest, plane)
    /\ prev = NoPrev
    /\ repeat = FALSE
    /\ parked = Nobody
    /\ build_in \in BuildInputs
    /\ build_out = None

NextBuild == Build

SpecBuild == InitBuild /\ [][NextBuild]_vars

(***************************************************************************)
(* Properties                                                              *)
(***************************************************************************)
Done == pc = "done"
Running == pc \notin {"idle"}
Succeeded == Done /\ outcomes[1].kind = "exit_json"
Failed == Done /\ outcomes[1].kind = "fail_json"
State == req.params.state
Count(call) == Len(SelectSeq(calls, LAMBDA c : c = call))
Lifecycle == {"started", "stopped", "restarted"}

\* C1: an invocation calls get at most once, exactly once when it has an
\* observed condition to branch on, before any mutating call, and issues at
\* most one mutating call in total.
C1_OneLookupThenAtMostOneMutation ==
    Running =>
        /\ Count("get") <= 1
        /\ Len(MutatingCalls) <= 1
        /\ calls # <<>> => calls[1] = "get"
        /\ Len(calls) = Count("get") + Len(MutatingCalls)
        /\ Looked => Count("get") = 1

C1_Witness ==
    /\ Done /\ calls = <<"get", "create">> /\ Succeeded /\ ~req.check_mode

\* C2: in check mode no mutating call is issued and the control plane stays
\* as it was when the invocation began.
C2_CheckModeMutatesNothing ==
    (Running /\ req.check_mode) =>
        /\ MutatingCalls = <<>>
        /\ plane = startPlane

C2_Witness ==
    /\ Succeeded /\ req.check_mode /\ outcomes[1].changed /\ vm_exists

\* C3: a check-mode run and a non-check-mode run of the same requested state
\* from the same observed condition, neither with a raising client call, end
\* in the same kind of outcome with the same changed flag and message.
C3_DryRunEquivalence ==
    (/\ Done
     /\ prev.kind # "none"
     /\ prev.req.params.state = State
     /\ prev.req.check_mode # req.check_mode
     /\ prev.condition # "unknown"
     /\ prev.condition = Condition
     /\ prev.clean /\ raised = <<>>)
    => /\ outcomes[1].kind = prev.kind
       /\ Succeeded => /\ outcomes[1].changed = prev.changed
                       /\ outcomes[1].message = prev.message
       /\ Failed => outcomes[1].msg = prev.message

C3_Witness ==
    /\ Succeeded
    /\ prev.kind = "exit_json"
    /\ prev.req.params.state = State
    /\ prev.req.check_mode /\ ~req.check_mode
    /\ prev.condition = Condition
    /\ prev.changed /\ outcomes[1].changed
    /\ prev.clean /\ raised = <<>>

\* C4 as claimed: in check mode every successful outcome carries the observed
\* VM when it exists and the empty document when it does not.
C4_CheckModeReturnsObserved ==
    (Succeeded /\ req.check_mode) =>
        outcomes[1].vm = IF vm_exists THEN existing_vm ELSE EmptyDict

\* C4 amended: in check mode a successful outcome carries the observed VM
\* exactly on the unchanged paths of present, started and stopped against an
\* existing VM, and the empty document on every other path (every path that
\* predicts changed=true, and state=absent).
C4_CheckModeResource ==
    (Succeeded /\ req.check_mode) =>
        outcomes[1].vm = IF vm_exists /\ ~outcomes[1].changed /\ State # "absent"
                         THEN existing_vm ELSE EmptyDict

C4_Witness ==
    /\ Succeeded /\ req.check_mode /\ vm_exists
    /\ State = "started" /\ outcomes[1].changed
    /\ outcomes[1].vm = EmptyDict

\* C5: after a successful non-check run of present, absent, started or
\* stopped, the identical request run next issues no mutating call and, once
\* its lookup has returned, succeeds with changed=false; present against an
\* absent VM and absent against an existing VM report changed=true first.
C5_Idempotence ==
    (/\ Running /\ repeat
     /\ prev.kind = "exit_json" /\ ~req.check_mode
     /\ State \in {"present", "absent", "started", "stopped"})
    => /\ MutatingCalls = <<>>
       /\ (Done /\ Looked) => (Succeeded /\ ~outcomes[1].changed)
       /\ (State = "present" /\ prev.condition = "absent") => prev.changed
       /\ (State = "absent" /\ prev.condition \in {"running", "not running"})
             => prev.changed

C5_Witness ==
    /\ Succeeded /\ repeat /\ ~req.check_mode
    /\ State = "present" /\ prev.kind = "exit_json"
    /\ prev.condition = "absent" /\ prev.changed
    /\ ~outcomes[1].changed /\ calls = <<"get">>

\* C6: against an existing VM in non-check mode, started issues start exactly
\* when the observed running flag is false and stopped issues stop exactly
\* when it is true; the call made, a success reports changed=true; no call
\* made, the run succeeds with changed=false and the observed VM.
C6_StartStopByRunningFlag ==
    (/\ Done /\ Looked /\ vm_exists /\ ~req.check_mode
     /\ State \in {"started", "stopped"})
    => LET op == IF State = "started" THEN "start" ELSE "stop"
           needed == IF State = "started" THEN ~vm_running(existing_vm)
                     ELSE vm_running(existing_vm)
       IN  /\ needed => calls = <<"get", op>>
           /\ ~needed => calls = <<"get">>
           /\ (needed /\ raised = <<>>) => Succeeded
           /\ (needed /\ Succeeded) => outcomes[1].changed
           /\ ~needed => /\ Succeeded
                         /\ ~outcomes[1].changed
                         /\ outcomes[1].vm = existing_vm
                         /\ plane = startPlane

C6_Witness ==
    /\ Succeeded /\ vm_exists /\ ~req.check_mode
    /\ State = "stopped" /\ vm_running(existing_vm)
    /\ calls = <<"get", "stop">> /\ outcomes[1].changed

\* C7: restarted against an existing VM reports changed=true whenever it
\* succeeds, whatever the observed running flag and however often it is
\* repeated; in non-check mode it issues exactly one restart call and in check
\* mode none.
C7_RestartAlwaysChanges ==
    (Done /\ Looked /\ vm_exists /\ State = "restarted")
    => /\ Succeeded => outcomes[1].changed
       /\ raised = <<>> => Succeeded
       /\ ~req.check_mode => calls = <<"get", "restart">>
       /\ req.check_mode => calls = <<"get">>

C7_Witness ==
    /\ Succeeded /\ vm_exists /\ State = "restarted" /\ ~req.check_mode
    /\ ~vm_running(existing_vm)
    /\ repeat /\ prev.kind = "exit_json" /\ prev.changed
    /\ outcomes[1].changed /\ calls = <<"get", "restart">>

\* C8: when the lookup reports not-found, started, stopped and restarted fail
\* with a message naming the missing VM and issue no mutating call, in check
\* and non-check mode; present and absent succeed (created with changed=true,
\* does-not-exist with changed=false) and fail only when create itself raises.
C8_NotFoundHandling ==
    (Done /\ Looked /\ ~vm_exists)
    => /\ State \in Lifecycle =>
            /\ outcomes = <<[kind |-> "fail_json",
                             msg |-> <<"VM '", req.params.name, "' ",
                                       "does not exist">>]>>
            /\ calls = <<"get">>
            /\ plane = startPlane
       /\ State = "absent" =>
            /\ Succeeded /\ ~outcomes[1].changed
            /\ calls = <<"get">>
       /\ State = "present" =>
            /\ calls = IF req.check_mode THEN <<"get">> ELSE <<"get", "create">>
            /\ Succeeded <=> raised = <<>>
            /\ Succeeded =>
                 /\ outcomes[1].changed
                 /\ outcomes[1].message =
                       <<"VM '", req.params.name, "' ", "created">>
            /\ Failed => /\ raised[1].call = "create"
                         /\ outcomes[1].msg[2] = raised[1].error

C8_Witness ==
    /\ Failed /\ Looked /\ ~vm_exists /\ State = "stopped" /\ req.check_mode
    /\ calls = <<"get">>

\* C9: present against an existing VM issues no mutating call, reports
\* changed=false and returns the observed VM as the control plane holds it,
\* whatever the observed running flag and the request's other fields.
C9_PresentIsExistenceOnly ==
    (Done /\ Looked /\ vm_exists /\ State = "present")
    => /\ calls = <<"get">>
       /\ Succeeded
       /\ ~outcomes[1].changed
       /\ outcomes[1].vm = existing_vm
       /\ existing_vm = startPlane.doc
       /\ plane = startPlane

C9_Witness ==
    /\ Succeeded /\ vm_exists /\ State = "present" /\ ~req.check_mode
    /\ ~req.params.running /\ vm_running(existing_vm)
    /\ req.params.spec = None /\ req.params.labels # None

\* C10: a client call that raises ends the invocation in one failure outcome
\* labelled by the kind of the error; it is the last client call of the
\* invocation, it is issued once, and no success is reported.
C10_ErrorsFailOnce ==
    (Running /\ raised # <<>>)
    => LET e == raised[1].error
           op == raised[1].call
           label == IF e = "HarvesterAuthenticationError"
                    THEN "Authentication failed: "
                    ELSE IF e = "HarvesterAPIError" THEN "API error: "
                    ELSE IF e = "HarvesterException" THEN "Harvester error: "
                    ELSE "Unexpected error: "
       IN  /\ Len(raised) = 1
           /\ Done
           /\ outcomes = <<[kind |-> "fail_json", msg |-> <<label, e>>]>>
           /\ op = "HarvesterClient" => calls = <<>>
           /\ op = "get" => calls = <<"get">>
           /\ op \in Mutating => calls = <<"get", op>>

C10_Witness ==
    /\ Failed /\ raised = <<[call |-> "delete", error |-> "HarvesterAPIError"]>>
    /\ calls = <<"get", "delete">>

\* the authentication methods a request supplies
TokenGiven == req.params.token # None
UserPassGiven == req.params.username # None /\ req.params.password # None
ExactlyOneAuth ==
    \/ TokenGiven /\ req.params.username = None /\ req.params.password = None
    \/ ~TokenGiven /\ UserPassGiven

\* C11 as claimed: a request that does not supply exactly one authentication
\* method (token, or username with password) is rejected by argument parsing
\* with a configuration error, before the client is constructed or called.
C11_ExactlyOneAuthMethod ==
    (Running /\ pc # "args" /\ ~ExactlyOneAuth)
    => /\ Failed
       /\ outcomes[1].msg \in
             {"parameters are required together: username, password",
              "one of the following is required: token, username"}
       /\ calls = <<>>
       /\ raised = <<>>

\* the documents build_vm_spec has returned
Built == build_out # None
RawPath == Built /\ TruthyDict(build_in.spec)
StructuredPath == Built /\ ~TruthyDict(build_in.spec)
OutDevices == build_out.spec.template.spec.domain.devices.disks
OutInterfaces == build_out.spec.template.spec.domain.devices.interfaces
OutVolumes == build_out.spec.template.spec.volumes
OutNetworks == build_out.spec.template.spec.networks
NameOf(item, default) == IF "name" \in DOMAIN item THEN item.name ELSE default

\* the metadata the raw path writes for the labels of the input
IdentityMetadata ==
    IF build_in.labels \notin {None, EmptyDict}
    THEN [name |-> build_in.name, namespace |-> build_in.namespace,
          labels |-> build_in.labels]
    ELSE [name |-> build_in.name, namespace |-> build_in.namespace]

\* C12: with a non-empty raw spec the document is the raw spec under the
\* identity metadata (with the labels when they are non-empty); it is
\* determined by name, namespace, labels and spec alone, so cpu_cores, memory,
\* disks, networks and running do not show in it.
C12_RawSpecPassthrough ==
    RawPath =>
        build_out = [apiVersion |-> "kubevirt.io/v1",
                     kind |-> "VirtualMachine",
                     metadata |-> IdentityMetadata,
                     spec |-> build_in.spec]

C12_Witness ==
    /\ RawPath
    /\ build_in.running /\ build_in.cpu_cores = 4
    /\ TruthyList(build_in.disks) /\ TruthyList(build_in.networks)
    /\ build_in.labels = [app |-> "web"]
    /\ build_out.spec.running = FALSE

\* C13: for a non-empty disk list the devices are one {name, bus} entry per
\* disk in input order, and the volumes are the disks that carry volume_name,
\* in input order, each with the disk's name and claimName = volume_name.
C13_DisksAndVolumes ==
    (StructuredPath /\ TruthyList(build_in.disks))
    => LET disks == build_in.disks.v
           backed == SelectSeq(disks, LAMBDA d : "volume_name" \in DOMAIN d)
       IN  /\ Len(OutDevices) = Len(disks)
           /\ \A i \in 1..Len(disks) :
                 OutDevices[i] =
                    [name |-> NameOf(disks[i], "disk0"),
                     disk |-> [bus |-> IF "bus" \in DOMAIN disks[i]
                                       THEN disks[i].bus ELSE "virtio"]]
           /\ Len(OutVolumes) = Len(backed)
           /\ \A k \in 1..Len(backed) :
                 OutVolumes[k] =
                    [name |-> NameOf(backed[k], "disk0"),
                     persistentVolumeClaim |->
                        [claimName |-> backed[k].volume_name]]

C13_Witness ==
    /\ StructuredPath
    /\ build_in.disks = List(<<[name |-> "scratch"],
                               [name |-> "disk0", volume_name |-> "my-volume",
                                bus |-> "virtio"]>>)
    /\ Len(OutDevices) = 2 /\ Len(OutVolumes) = 1

\* C14: for a network list the interfaces and the networks are one entry
\* each per pod or multus item, in input order and with the item's name:
\* masquerade and pod for a pod item, bridge and multus for a multus item with
\* networkName = network_name or else the item's name; other types emit
\* nothing.
C14_InterfacesAndNetworks ==
    (StructuredPath /\ TruthyList(build_in.networks))
    => LET TypeOf(n) == IF "type" \in DOMAIN n THEN n.type ELSE "pod"
           emitting == SelectSeq(build_in.networks.v,
                                 LAMBDA n : TypeOf(n) \in {"pod", "multus"})
       IN  /\ Len(OutInterfaces) = Len(emitting)
           /\ Len(OutNetworks) = Len(emitting)
           /\ \A k \in 1..Len(emitting) :
                 LET n == emitting[k]
                     name == NameOf(n, "default")
                 IN  /\ OutInterfaces[k].name = name
                     /\ OutNetworks[k].name = name
                     /\ TypeOf(n) = "pod" =>
                          /\ OutInterfaces[k] =
                                [name |-> name, masquerade |-> EmptyDict]
                          /\ OutNetworks[k] = [name |-> name, pod |-> EmptyDict]
                     /\ TypeOf(n) = "multus" =>
                          /\ OutInterfaces[k] =
                                [name |-> name, bridge |-> EmptyDict]
                          /\ OutNetworks[k] =
                                [name |-> name,
                                 multus |-> [networkName |->
                                    IF "network_name" \in DOMAIN n
                                    THEN n.network_name ELSE name]]

C14_Witness ==
    /\ StructuredPath
    /\ build_in.networks = List(<<[name |-> "mgmt", type |-> "other"],
                                  [name |-> "vlan2", type |-> "multus"]>>)
    /\ OutNetworks = <<[name |-> "vlan2",
                        multus |-> [networkName |-> "vlan2"]]>>
    /\ Len(OutInterfaces) = 1

\* C15: with no disks (not supplied, or an empty list) the document has the
\* one device disk0 on bus virtio and no volume; with no networks it has one
\* masquerade interface and one pod network, both named default.
C15_Defaults ==
    StructuredPath =>
        /\ ~TruthyList(build_in.disks) =>
              /\ OutDevices = <<[name |-> "disk0", disk |-> [bus |-> "virtio"]]>>
              /\ OutVolumes = <<>>
        /\ ~TruthyList(build_in.networks) =>
              /\ OutInterfaces = <<[name |-> "default", masquerade |-> EmptyDict]>>
              /\ OutNetworks = <<[name |-> "default", pod |-> EmptyDict]>>

C15_Witness ==
    /\ StructuredPath
    /\ build_in.disks = List(<<>>)
    /\ build_in.networks = None
    /\ Len(OutDevices) = 1 /\ Len(OutNetworks) = 1

\* C18 as claimed: on the structured path the labels are attached to the
\* identity metadata, where the raw path attaches them.
C18_LabelsInIdentityMetadata ==
    StructuredPath => build_out.metadata = IdentityMetadata

\* C19: a non-empty network list whose items all have a type other than pod
\* or multus yields no interface and no network; the default network is not
\* added.
C19_NoDefaultForUnknownTypes ==
    (/\ StructuredPath /\ TruthyList(build_in.networks)
     /\ \A i \in 1..Len(build_in.networks.v) :
           /\ "type" \in DOMAIN build_in.networks.v[i]
           /\ build_in.networks.v[i].type \notin {"pod", "multus"})
    => /\ OutInterfaces = <<>>
       /\ OutNetworks = <<>>

C19_Witness ==
    /\ StructuredPath
    /\ build_in.networks = List(<<[name |-> "mgmt", type |-> "other"]>>)
    /\ OutInterfaces = <<>> /\ OutNetworks = <<>>

\* C16: an invocation has no outcome while it runs and exactly one when it
\* has stopped, a success or a failure; the not-found failure of started,
\* stopped and restarted is the only outcome of its invocation: nothing was
\* raised after it, the result is untouched and no call follows the lookup.
C16_ExactlyOneOutcome ==
    /\ Len(outcomes) <= 1
    /\ Done <=> Len(outcomes) = 1
    /\ Done => outcomes[1].kind \in {"exit_json", "fail_json"}
    /\ (Done /\ Looked /\ ~vm_exists /\ State \in Lifecycle)
       => /\ outcomes[1].kind = "fail_json"
          /\ raised = <<>>
          /\ result = NoResult
          /\ calls = <<"get">>

C16_Witness ==
    /\ Failed /\ Looked /\ ~vm_exists /\ State = "restarted"
    /\ ~req.check_mode
    /\ Len(outcomes) = 1 /\ raised = <<>>

\* the lookup of invocation i has returned and its branch has run
BranchRan(i) ==
    /\ i.pc \in {"exit", "done"}
    /\ i.calls # <<>>
    /\ (i.raised = <<>> \/ i.raised[1].call # "get")

\* invocation i issues the call its observation asks for (non-check mode)
ActsOnObservation(i) ==
    (BranchRan(i) /\ ~i.req.check_mode)
    => /\ (i.req.params.state = "present" /\ ~i.vm_exists)
          => i.calls = <<"get", "create">>
       /\ (i.req.params.state = "absent" /\ i.vm_exists)
          => i.calls = <<"get", "delete">>

\* invocation i, non-check and with the requested state, began with the
\* control plane p and has issued the mutating call op
Issued(i, state, p, op) ==
    /\ i.req.params.state = state /\ ~i.req.check_mode
    /\ i.startPlane = p
    /\ i.vm_exists = p.exists
    /\ i.calls = <<"get", op>>

\* C17: of two concurrent invocations, each one that observed absence under
\* state=present issues create and each one that observed the VM under
\* state=absent issues delete (non-check mode), whatever the other invocation
\* has done in the meantime; both can have observed absence and both have
\* issued create.
C17_NoLocking ==
    parked # Nobody => (ActsOnObservation(Locals) /\ ActsOnObservation(parked))

C17_Witness ==
    /\ parked # Nobody
    /\ Issued(Locals, "present", AbsentPlane(0), "create")
    /\ Issued(parked, "present", AbsentPlane(0), "create")

\* both invocations observed the VM and both issued delete
C17_BothDelete ==
    /\ parked # Nobody
    /\ \E d \in InitDocs :
          /\ Issued(Locals, "absent", ExistingPlane(d, 0), "delete")
          /\ Issued(parked, "absent", ExistingPlane(d, 0), "delete")

\* C20: an observed VM without a spec section or without a running field is
\* not running: started issues start (predicts it in check mode) and reports
\* changed=true, stopped issues no call and reports changed=false; for every
\* existing VM the branch wants a change exactly when the requested state
\* differs from spec.running being present and true.
C20_MissingRunningIsStopped ==
    (Done /\ Looked /\ vm_exists /\ State \in {"started", "stopped"})
    => LET vm == existing_vm
           flagged == /\ "spec" \in DOMAIN vm
                      /\ "running" \in DOMAIN vm.spec
           on == flagged /\ vm.spec.running
           acted == \/ Len(MutatingCalls) = 1
                    \/ req.check_mode /\ Succeeded /\ outcomes[1].changed
       IN  /\ acted <=> (on # (State = "started"))
           /\ (~flagged /\ State = "started")
              => /\ calls = IF req.check_mode THEN <<"get">>
                            ELSE <<"get", "start">>
                 /\ raised = <<>> => (Succeeded /\ outcomes[1].changed)
           /\ (~flagged /\ State = "stopped")
              => /\ calls = <<"get">>
                 /\ Succeeded /\ ~outcomes[1].changed

C20_Witness ==
    /\ Succeeded /\ vm_exists /\ State = "started" /\ ~req.check_mode
    /\ "spec" \notin DOMAIN existing_vm
    /\ calls = <<"get", "start">> /\ outcomes[1].changed

====
